---------------------------- MODULE Spec2Model ----------------------------
(***************************************************************************)
(* Model of DayTradingAlgorithm.backtest_intraday_trades                   *)
(* (src/day_trading_backtest.py): the intraday trade scan over a series of *)
(* 1-minute bars, driven by a daily-pattern profile.                       *)
(*                                                                         *)
(* Numbers.  Prices are integers (price units are arbitrary; the code only *)
(* uses ratios of prices).  Every quotient the code computes in floating   *)
(* point is kept here as an exact fraction [num, den] in lowest terms, and *)
(* every comparison against a decimal threshold is done by cross           *)
(* multiplication, so 0.8 is 8/10, 0.5 is 5/10, 2.0 is 20/10 and 0.1 is    *)
(* 10/100.  Floating-point rounding is not modelled.  A pandas value that  *)
(* is NaN or +inf is a value of kind "nan" or "inf"; a comparison with NaN *)
(* is false, as in the code.                                               *)
(*                                                                         *)
(* Indexing.  The code's positions (iloc) are 0-based; rows are kept in a  *)
(* TLA+ sequence, so position k of the code is element k + 1.              *)
(***************************************************************************)
EXTENDS Integers, Sequences, FiniteSets, TLC

VARIABLES
    df_1m,           \* input: the rows handed to the function
    daily_patterns,  \* input: the profile of the symbol
    pc,              \* "call", "scan" or "done": where the call stands
    df,              \* the sorted copy the scan reads (line 128)
    i,               \* the loop index of the scan (line 153)
    in_trade,        \* line 149
    entry_price,     \* line 150
    entry_idx,       \* line 151
    trades,          \* line 148
    result,          \* what the call returned
    hist,            \* history: the bars of the position transitions
    calls,           \* how many calls were made on these inputs
    first,           \* what the first of two calls returned
    analyzer_df,     \* StockAnalyzer.df: the analyzer's sorted frame
    window,          \* the window calculate_rsi was called with
    returned_rsi,    \* the series calculate_rsi returned (<<>> before)
    df_daily,        \* the daily rows handed to analyze_daily_patterns
    profiler_pc,     \* "idle", "call" or "done": where that call stands
    patterns,        \* what analyze_daily_patterns returned
    cache,           \* main: per symbol, the daily and the 1-minute file
    skip_training,   \* main: an algorithm file was loaded and kept
    main_pc,         \* "idle", "train", "backtest", "report", "done", "raised"
    cursor,          \* main: the position of the running loop
    algorithm_dict,  \* main: the profiled symbols, in insertion order
    results,         \* main: the list of line 293
    report,          \* main: the rows printed by lines 335-341
    visited,         \* history: the symbols each loop has taken up
    names,           \* the ticker (a number) of the symbol at each position
    runs,            \* how many runs of main were started on these files
    first_ranking,   \* the tickers of the first run's results, in rank order
    cache_dir,       \* CacheManager: the names of the files in cache_dir
    index,           \* CacheManager.index: the entries, each under its key
    last_call        \* history: the last call and the state it started from

\* the variables of the trade scan
scan_vars == <<df_1m, daily_patterns, pc, df, i, in_trade, entry_price,
               entry_idx, trades, result, hist, calls, first>>
\* the variables of StockAnalyzer
analyzer_vars == <<analyzer_df, window, returned_rsi>>
\* the variables of analyze_daily_patterns
profiler_vars == <<df_daily, profiler_pc, patterns>>
\* the variables of main
main_vars == <<cache, skip_training, main_pc, cursor, algorithm_dict, results,
               report, visited>>
\* the variables that compare two runs of main
order_vars == <<names, runs, first_ranking>>
\* the variables of CacheManager
cache_vars == <<cache_dir, index, last_call>>
\* the variables the trade scan does not touch
others == <<analyzer_vars, profiler_vars, main_vars, order_vars, cache_vars>>
\* the variables calculate_rsi does not touch
not_analyzer == <<scan_vars, profiler_vars, main_vars, order_vars, cache_vars>>
\* the variables analyze_daily_patterns does not touch
not_profiler == <<scan_vars, analyzer_vars, main_vars, order_vars, cache_vars>>
\* the variables main does not touch
not_main == <<scan_vars, analyzer_vars, profiler_vars, order_vars, cache_vars>>
\* the variables CacheManager does not touch
not_cache == <<scan_vars, analyzer_vars, profiler_vars, main_vars, order_vars>>

vars == <<scan_vars, others>>

---------------------------------------------------------------------------
(* Program constants, each a literal of the source.                        *)

MinBars == 100          \* len(df_1m) < 100
MinVolatilityPct == 10  \* annual_volatility < 0.1, in hundredths
SmaWindow == 5          \* rolling(window=5)
RsiWindow == 14         \* rolling(window=14)
ScanStart == 20         \* range(20, ...)
ScanTail == 5           \* range(..., len(df) - 5)
RsiOversold == 35       \* current['RSI'] < 35
ProfitTargetTenths == 8 \* profit_pct >= 0.8
StopLossTenths == 5     \* profit_pct <= -0.5
MaxHoldBars == 60       \* (i - entry_idx) > 60
LargeMoveTenths == 20   \* abs(profit_pct) > 2.0

---------------------------------------------------------------------------
(* Bounds of the input family.                                             *)

ExtraBars == 0          \* the long series has MinBars + ExtraBars rows
MaxMoves == 2           \* a series changes its price level at most so often

BasePrice == 1005
Levels == {995, 1000, 1005, 1008}
\* The bars at which a generated series may change level: before the scan
\* (10, inside the first RSI window but outside the first SMA window, and
\* 19), at its first bars (25, 26 and 30: an entry, the bar after it, five
\* bars after it), 61 bars after an entry at 25 (86) and the bar after
\* that, the last bar scanned in MinBars rows (94) and the first bar of the
\* tail the scan never reads (95).
MoveBars == {10, 19, 25, 26, 30, 86, 87, 94, 95}
VolatilityPcts == {5, 10}

---------------------------------------------------------------------------
(* Exact fractions and pandas' special values.                             *)

Abs(x) == IF x < 0 THEN -x ELSE x

RECURSIVE GCD(_, _)
GCD(a, b) == IF b = 0 THEN a ELSE GCD(b, a % b)

NaN == [kind |-> "nan", num |-> 0, den |-> 1]
Inf == [kind |-> "inf", num |-> 1, den |-> 1]

\* n / d for d > 0, in lowest terms
Frac(n, d) ==
    LET g == GCD(Abs(n), d)
    IN  [kind |-> "num", num |-> n \div g, den |-> d \div g]

\* x < a/b, x <= a/b, x >= a/b, x > a/b for b > 0: false when x is NaN
FracLt(x, a, b) ==
    /\ x.kind # "nan"
    /\ x.kind = "num"
    /\ x.num * b < a * x.den
FracLe(x, a, b) ==
    /\ x.kind # "nan"
    /\ x.kind = "num"
    /\ x.num * b <= a * x.den
FracGe(x, a, b) ==
    /\ x.kind # "nan"
    /\ (x.kind = "inf" \/ x.num * b >= a * x.den)
FracGt(x, a, b) ==
    /\ x.kind # "nan"
    /\ (x.kind = "inf" \/ x.num * b > a * x.den)
FracAbs(x) == [x EXCEPT !.num = Abs(x.num)]

RECURSIVE SumFrom(_, _, _)
\* f[lo] + ... + f[hi]
SumFrom(f, lo, hi) ==
    IF lo > hi THEN 0
    ELSE IF lo = hi THEN f[lo]
    ELSE LET mid == (lo + hi) \div 2
         IN  SumFrom(f, lo, mid) + SumFrom(f, mid + 1, hi)

---------------------------------------------------------------------------
(* Rows and frames.                                                        *)

Iloc(d, k) == d[k + 1]
Close(d, k) == Iloc(d, k).Close

\* the timestamp of the k-th minute of the session
TimeOf(k) == 570 + k

RECURSIVE MergeByDate(_, _)
\* two runs in Date order merged into one: the middle row of a goes after
\* the rows of b that are before it, and so on in each half
MergeByDate(a, b) ==
    IF a = <<>> THEN b
    ELSE IF b = <<>> THEN a
    ELSE LET h == (Len(a) + 1) \div 2
             c == Cardinality({m \in 1..Len(b) : b[m].Date < a[h].Date})
         IN  MergeByDate(SubSeq(a, 1, h - 1), SubSeq(b, 1, c))
               \o <<a[h]>>
               \o MergeByDate(SubSeq(a, h + 1, Len(a)), SubSeq(b, c + 1, Len(b)))

RECURSIVE SortRows(_)
\* the rows in increasing Date order (the input families hold no two rows
\* of one Date, whose order sort_values leaves open)
SortRows(rows) ==
    IF Len(rows) <= 1 THEN rows
    ELSE LET h == Len(rows) \div 2
         IN  MergeByDate(SortRows(SubSeq(rows, 1, h)),
                         SortRows(SubSeq(rows, h + 1, Len(rows))))

IsSortedByDate(rows) ==
    \A k \in 1..(Len(rows) - 1) : rows[k].Date < rows[k + 1].Date

\* df_1m.sort_values('Date').copy(): rows in increasing Date order.  Rows
\* already in strictly increasing order are their own sorted copy.
SortByDate(rows) == IF IsSortedByDate(rows) THEN rows ELSE SortRows(rows)

\* a sequence in the opposite order
Reversed(rows) == [k \in 1..Len(rows) |-> rows[Len(rows) + 1 - k]]

---------------------------------------------------------------------------
(* Indicators (lines 135-143), as pandas computes them.                    *)

\* df['Close'].rolling(window=5).mean() at position k
SMA5(d, k) ==
    IF k < SmaWindow - 1 THEN NaN
    ELSE Frac(SumFrom([j \in (k - SmaWindow + 1)..k |-> Close(d, j)],
                      k - SmaWindow + 1, k), SmaWindow)

\* df['Close'].diff() at position k >= 1 (position 0 is NaN)
Delta(d, k) == Close(d, k) - Close(d, k - 1)

\* delta.where(delta > 0, 0): NaN > 0 is false, so position 0 holds 0
GainTerm(d, k) == IF k >= 1 /\ Delta(d, k) > 0 THEN Delta(d, k) ELSE 0
\* -delta.where(delta < 0, 0)
LossTerm(d, k) == IF k >= 1 /\ Delta(d, k) < 0 THEN -Delta(d, k) ELSE 0

\* (...).rolling(window=14).mean() at position k
AvgGain(d, k) ==
    IF k < RsiWindow - 1 THEN NaN
    ELSE Frac(SumFrom([j \in (k - RsiWindow + 1)..k |-> GainTerm(d, j)],
                      k - RsiWindow + 1, k), RsiWindow)
AvgLoss(d, k) ==
    IF k < RsiWindow - 1 THEN NaN
    ELSE Frac(SumFrom([j \in (k - RsiWindow + 1)..k |-> LossTerm(d, j)],
                      k - RsiWindow + 1, k), RsiWindow)

\* rs = gain / loss: x/0 is +inf for x > 0 and NaN for x = 0
RS(d, k) ==
    LET g == AvgGain(d, k)
        l == AvgLoss(d, k)
    IN  IF g.kind = "nan" \/ l.kind = "nan" THEN NaN
        ELSE IF l.num = 0 THEN (IF g.num = 0 THEN NaN ELSE Inf)
        ELSE Frac(g.num * l.den, g.den * l.num)

\* 100 - (100 / (1 + rs))
RSI(d, k) ==
    LET rs == RS(d, k)
    IN  IF rs.kind = "nan" THEN NaN
        ELSE IF rs.kind = "inf" THEN Frac(100, 1)
        ELSE Frac(100 * (rs.den + rs.num) - 100 * rs.den, rs.den + rs.num)

---------------------------------------------------------------------------
(* The input family.                                                       *)

\* The close of bar k of the series that starts at BasePrice and moves to
\* level lv[b] at each bar b of S.
LevelAt(S, lv, k) ==
    LET before == {b \in S : b <= k}
    IN  IF before = {} THEN BasePrice
        ELSE lv[CHOOSE b \in before : \A c \in before : c <= b]

Series(n, S, lv) ==
    [k \in 1..n |-> [Date |-> TimeOf(k - 1), Close |-> LevelAt(S, lv, k - 1)]]

Lengths == {MinBars - 1, MinBars + ExtraBars}

NoProfile == [is_none |-> TRUE, annual_volatility |-> 0, in_uptrend |-> FALSE]
Profiles ==
    {NoProfile} \cup
    [is_none : {FALSE}, annual_volatility : VolatilityPcts, in_uptrend : BOOLEAN]

NoStats == [total_trades |-> 0]
\* return None, None
NoResult == [returned |-> TRUE, is_none |-> TRUE, trades |-> <<>>,
             stats |-> NoStats]
\* the call has not returned yet
Pending == [returned |-> FALSE, is_none |-> TRUE, trades |-> <<>>,
            stats |-> NoStats]
NoHist == [opens |-> <<>>, closes |-> <<>>, exit_eval |-> -1]

\* no StockAnalyzer was constructed
AnalyzerIdle ==
    /\ analyzer_df = <<>>
    /\ window = 0
    /\ returned_rsi = <<>>

\* what analyze_daily_patterns returns for a frame it does not profile
NoPatterns ==
    [is_none |-> TRUE, recent_trend_20d |-> NaN, in_uptrend |-> FALSE,
     avg_daily_range_pct |-> NaN, win_rate |-> NaN, current_price |-> 0]

\* no profile is being computed
ProfilerIdle ==
    /\ df_daily = <<>>
    /\ profiler_pc = "idle"
    /\ patterns = NoPatterns

NoVisits == [train |-> <<>>, backtest |-> <<>>]

\* main is not running
MainIdle ==
    /\ cache = <<>>
    /\ skip_training = FALSE
    /\ main_pc = "idle"
    /\ cursor = 0
    /\ algorithm_dict = <<>>
    /\ results = <<>>
    /\ report = <<>>
    /\ visited = NoVisits

\* one run of main, the symbols under their own positions
OneRun ==
    /\ names = <<>>
    /\ runs = 1
    /\ first_ranking = <<>>

NoCall ==
    [op |-> "none", symbol |-> <<>>, dir_before |-> {}, index_before |-> {},
     daily |-> "unset", daily_saved |-> FALSE, minute |-> "unset",
     minute_fetched |-> FALSE]

\* a CacheManager on an empty directory
CacheEmpty ==
    /\ cache_dir = {}
    /\ index = {}
    /\ last_call = NoCall

OthersIdle == AnalyzerIdle /\ ProfilerIdle /\ MainIdle /\ OneRun /\ CacheEmpty

Init ==
    /\ \E n \in Lengths, S \in SUBSET MoveBars :
          /\ Cardinality(S) <= MaxMoves
          /\ \E lv \in [S -> Levels] : df_1m = Series(n, S, lv)
    /\ daily_patterns \in Profiles
    /\ pc = "call"
    /\ df = <<>>
    /\ i = 0
    /\ in_trade = FALSE
    /\ entry_price = 0
    /\ entry_idx = 0
    /\ trades = <<>>
    /\ result = Pending
    /\ hist = NoHist
    /\ calls = 1
    /\ first = Pending
    /\ OthersIdle

---------------------------------------------------------------------------
(* backtest_intraday_trades, lines 121-151: the checks and the set-up.     *)

\* line 121 (a missing frame is a frame of no rows here) and line 124
InputRejected == Len(df_1m) < MinBars \/ daily_patterns.is_none

\* the gate with the threshold a decimal place off (0.01)
VolatilityTooLowTenth == daily_patterns.annual_volatility * 10 < MinVolatilityPct

\* line 131
VolatilityTooLow == daily_patterns.annual_volatility < MinVolatilityPct

\* lines 121-125: return None, None
RejectInput ==
    /\ pc = "call"
    /\ InputRejected
    /\ pc' = "done"
    /\ result' = NoResult
    /\ UNCHANGED <<df_1m, daily_patterns, df, i, in_trade, entry_price,
                   entry_idx, trades, hist, calls, first>>
    /\ UNCHANGED others

\* lines 128-132: the frame is sorted, then the volatility gate returns
RejectVolatility ==
    /\ pc = "call"
    /\ ~InputRejected
    /\ VolatilityTooLow
    /\ df' = SortByDate(df_1m)
    /\ pc' = "done"
    /\ result' = NoResult
    /\ UNCHANGED <<df_1m, daily_patterns, i, in_trade, entry_price, entry_idx,
                   trades, hist, calls, first>>
    /\ UNCHANGED others

\* the set-up without the sort of line 128
PrepareUnsorted ==
    /\ pc = "call"
    /\ ~InputRejected
    /\ ~VolatilityTooLow
    /\ df' = df_1m
    /\ trades' = <<>>
    /\ in_trade' = FALSE
    /\ entry_price' = 0
    /\ entry_idx' = 0
    /\ i' = ScanStart
    /\ pc' = "scan"
    /\ hist' = NoHist
    /\ UNCHANGED <<df_1m, daily_patterns, result, calls, first>>
    /\ UNCHANGED others

\* the set-up with the position kept from the call before
PrepareKeepPosition ==
    /\ pc = "call"
    /\ ~InputRejected
    /\ ~VolatilityTooLow
    /\ df' = SortByDate(df_1m)
    /\ trades' = <<>>
    /\ i' = ScanStart
    /\ pc' = "scan"
    /\ hist' = NoHist
    /\ UNCHANGED <<df_1m, daily_patterns, result, calls, first, in_trade,
                   entry_price, entry_idx>>
    /\ UNCHANGED others

\* lines 128-153: sort, indicators (operators of df here), the locals of
\* the scan, and the loop's first index
Prepare ==
    /\ pc = "call"
    /\ ~InputRejected
    /\ ~VolatilityTooLow
    /\ df' = SortByDate(df_1m)
    /\ trades' = <<>>
    /\ in_trade' = FALSE
    /\ entry_price' = 0
    /\ entry_idx' = 0
    /\ i' = ScanStart
    /\ pc' = "scan"
    /\ hist' = NoHist
    /\ UNCHANGED <<df_1m, daily_patterns, result, calls, first>>
    /\ UNCHANGED others

---------------------------------------------------------------------------
(* The scan, lines 153-208: one action per outcome of the loop body.       *)

\* the loop as range(20, len(df)): the last five bars are scanned too
InScanToLastBar == pc = "scan" /\ i < Len(df)

\* range(20, len(df) - 5) still has an index
InScan == pc = "scan" /\ i < Len(df) - ScanTail

\* the signal without the test of the moving average
EntrySignalRsiOnly(d, k) == FracLt(RSI(d, k), RsiOversold, 1)

\* the signal with an undefined indicator taken as a dip
EntrySignalUndefinedFires(d, k) ==
    \/ SMA5(d, k).kind = "nan"
    \/ RSI(d, k).kind = "nan"
    \/ /\ FracGt(SMA5(d, k), Close(d, k), 1)
       /\ FracLt(RSI(d, k), RsiOversold, 1)

\* line 160
EntrySignal(d, k) ==
    /\ FracGt(SMA5(d, k), Close(d, k), 1)
    /\ FracLt(RSI(d, k), RsiOversold, 1)

\* the entry block without the test of the uptrend
EntryTakenInAnyTrend(d, k) ==
    /\ ~in_trade
    /\ EntrySignal(d, k)

\* the entry block without the test of in_trade
EntryTakenInAnyState(d, k) ==
    /\ daily_patterns.in_uptrend
    /\ EntrySignal(d, k)

\* lines 158 and 160 together: the entry block runs to its continue
EntryTaken(d, k) ==
    /\ ~in_trade
    /\ daily_patterns.in_uptrend
    /\ EntrySignal(d, k)

\* the gain taken relative to the current close
ProfitPctOfClose(close, entry) == Frac((close - entry) * 100, close)

\* line 169
ProfitPct(close, entry) == Frac((close - entry) * 100, entry)

\* the chain with the time-based branch tested first
ExitReasonTimeFirst(p, hold) ==
    IF hold > MaxHoldBars \/ FracGt(FracAbs(p), LargeMoveTenths, 10)
         THEN (IF hold > MaxHoldBars THEN "Time Exit" ELSE "Large Move")
    ELSE IF FracGe(p, ProfitTargetTenths, 10) THEN "Profit Target"
    ELSE IF FracLe(p, -StopLossTenths, 10) THEN "Stop Loss"
    ELSE "none"

\* the chain with the large move tested before the other branches
ExitReasonLargeMoveFirst(p, hold) ==
    IF FracGt(FracAbs(p), LargeMoveTenths, 10) THEN "Large Move"
    ELSE IF FracGe(p, ProfitTargetTenths, 10) THEN "Profit Target"
    ELSE IF FracLe(p, -StopLossTenths, 10) THEN "Stop Loss"
    ELSE IF hold > MaxHoldBars THEN "Time Exit"
    ELSE "none"

\* the chain with the time-based branch taken from hold = 60 on
ExitReasonAtMaxHold(p, hold) ==
    IF FracGe(p, ProfitTargetTenths, 10) THEN "Profit Target"
    ELSE IF FracLe(p, -StopLossTenths, 10) THEN "Stop Loss"
    ELSE IF hold >= MaxHoldBars \/ FracGt(FracAbs(p), LargeMoveTenths, 10)
         THEN (IF hold >= MaxHoldBars THEN "Time Exit" ELSE "Large Move")
    ELSE "none"

\* lines 172, 185 and 198: the if / elif chain, "none" when no branch runs
ExitReason(p, hold) ==
    IF FracGe(p, ProfitTargetTenths, 10) THEN "Profit Target"
    ELSE IF FracLe(p, -StopLossTenths, 10) THEN "Stop Loss"
    ELSE IF hold > MaxHoldBars \/ FracGt(FracAbs(p), LargeMoveTenths, 10)
         THEN (IF hold > MaxHoldBars THEN "Time Exit" ELSE "Large Move")
    ELSE "none"

\* the dict with the hold counted from the entry bar inclusive
MakeTradeHoldInclusive(d, k, p, reason) ==
    [entry_time |-> Iloc(d, entry_idx).Date,
     entry_price |-> entry_price,
     exit_time |-> Iloc(d, k).Date,
     exit_price |-> Close(d, k),
     profit_pct |-> p,
     hold_minutes |-> k - entry_idx + 1,
     exit_reason |-> reason]

\* the dict appended at lines 173-181, 186-194 and 199-207
MakeTrade(d, k, p, reason) ==
    [entry_time |-> Iloc(d, entry_idx).Date,
     entry_price |-> entry_price,
     exit_time |-> Iloc(d, k).Date,
     exit_price |-> Close(d, k),
     profit_pct |-> p,
     hold_minutes |-> k - entry_idx,
     exit_reason |-> reason]

\* lines 158-164
OpenPosition ==
    /\ InScan
    /\ EntryTaken(df, i)
    /\ entry_price' = Close(df, i)
    /\ entry_idx' = i
    /\ in_trade' = TRUE
    /\ hist' = [hist EXCEPT !.opens = Append(@, i)]
    /\ i' = i + 1
    /\ UNCHANGED <<df_1m, daily_patterns, pc, df, trades, result, calls,
                   first>>
    /\ UNCHANGED others

\* the exit block followed by the entry test on the same bar
ClosePositionThenEnter ==
    /\ InScan
    /\ ~EntryTaken(df, i)
    /\ in_trade
    /\ LET p == ProfitPct(Close(df, i), entry_price)
           reason == ExitReason(p, i - entry_idx)
       IN  /\ reason # "none"
           /\ trades' = Append(trades, MakeTrade(df, i, p, reason))
    /\ IF daily_patterns.in_uptrend /\ EntrySignal(df, i)
       THEN /\ in_trade' = TRUE
            /\ entry_price' = Close(df, i)
            /\ entry_idx' = i
            /\ hist' = [hist EXCEPT !.closes = Append(@, i), !.exit_eval = i,
                                    !.opens = Append(@, i)]
       ELSE /\ in_trade' = FALSE
            /\ UNCHANGED <<entry_price, entry_idx>>
            /\ hist' = [hist EXCEPT !.closes = Append(@, i), !.exit_eval = i]
    /\ i' = i + 1
    /\ UNCHANGED <<df_1m, daily_patterns, pc, df, result, calls, first>>
    /\ UNCHANGED others

\* lines 167-208 with a branch of the chain taken
ClosePosition ==
    /\ InScan
    /\ ~EntryTaken(df, i)
    /\ in_trade
    /\ LET p == ProfitPct(Close(df, i), entry_price)
           reason == ExitReason(p, i - entry_idx)
       IN  /\ reason # "none"
           /\ trades' = Append(trades, MakeTrade(df, i, p, reason))
    /\ in_trade' = FALSE
    /\ hist' = [hist EXCEPT !.closes = Append(@, i), !.exit_eval = i]
    /\ i' = i + 1
    /\ UNCHANGED <<df_1m, daily_patterns, pc, df, entry_price, entry_idx,
                   result, calls, first>>
    /\ UNCHANGED others

\* lines 167-208 with no branch taken
HoldPosition ==
    /\ InScan
    /\ ~EntryTaken(df, i)
    /\ in_trade
    /\ ExitReason(ProfitPct(Close(df, i), entry_price), i - entry_idx) = "none"
    /\ hist' = [hist EXCEPT !.exit_eval = i]
    /\ i' = i + 1
    /\ UNCHANGED <<df_1m, daily_patterns, pc, df, in_trade, entry_price,
                   entry_idx, trades, result, calls, first>>
    /\ UNCHANGED others

\* neither block runs
IdleBar ==
    /\ InScan
    /\ ~EntryTaken(df, i)
    /\ ~in_trade
    /\ i' = i + 1
    /\ UNCHANGED <<df_1m, daily_patterns, pc, df, in_trade, entry_price,
                   entry_idx, trades, result, hist, calls, first>>
    /\ UNCHANGED others

---------------------------------------------------------------------------
(* The statistics and the return, lines 210-231.                           *)

FracAdd(x, y) == Frac(x.num * y.den + y.num * x.den, x.den * y.den)
\* x / y for y # 0
FracDiv(x, y) ==
    IF y.num > 0 THEN Frac(x.num * y.den, x.den * y.num)
    ELSE Frac(-(x.num * y.den), x.den * (-y.num))

RECURSIVE SumProfit(_)
\* df_trades[...]['profit_pct'].sum()
SumProfit(ts) ==
    IF ts = <<>> THEN Frac(0, 1)
    ELSE FracAdd(Head(ts).profit_pct, SumProfit(Tail(ts)))

\* the mean of a non-empty selection
MeanProfit(ts) == FracDiv(SumProfit(ts), Frac(Len(ts), 1))

\* a winner is any trade that did not lose
IsWinOrFlat(t) == t.profit_pct.num >= 0
IsWin(t) == t.profit_pct.num > 0
Winners(ts) == SelectSeq(ts, IsWin)
IsLoss(t) == t.profit_pct.num <= 0
Losers(ts) == SelectSeq(ts, IsLoss)

\* the stats with the profit factor left signed
StatsSignedFactor(ts) ==
    LET win_count == Len(Winners(ts))
        avg_win == IF win_count > 0 THEN MeanProfit(Winners(ts)) ELSE Frac(0, 1)
        avg_loss == IF Len(ts) - win_count > 0 THEN MeanProfit(Losers(ts))
                    ELSE Frac(0, 1)
    IN  [total_trades |-> Len(ts),
         winning_trades |-> win_count,
         losing_trades |-> Len(ts) - win_count,
         win_rate |-> Frac(win_count * 100, Len(ts)),
         total_pnl_pct |-> SumProfit(ts),
         avg_win |-> avg_win,
         avg_loss |-> avg_loss,
         profit_factor |-> IF avg_loss.num # 0
                           THEN FracDiv(avg_win, avg_loss)
                           ELSE Frac(0, 1)]

\* lines 212-227
Stats(ts) ==
    LET win_count == Len(Winners(ts))
        avg_win == IF win_count > 0 THEN MeanProfit(Winners(ts)) ELSE Frac(0, 1)
        avg_loss == IF Len(ts) - win_count > 0 THEN MeanProfit(Losers(ts))
                    ELSE Frac(0, 1)
    IN  [total_trades |-> Len(ts),
         winning_trades |-> win_count,
         losing_trades |-> Len(ts) - win_count,
         win_rate |-> Frac(win_count * 100, Len(ts)),
         total_pnl_pct |-> SumProfit(ts),
         avg_win |-> avg_win,
         avg_loss |-> avg_loss,
         profit_factor |-> IF avg_loss.num # 0
                           THEN FracAbs(FracDiv(avg_win, avg_loss))
                           ELSE Frac(0, 1)]

\* the return with an open position closed at the last scanned bar
FinishForceClose ==
    /\ pc = "scan"
    /\ ~(i < Len(df) - ScanTail)
    /\ LET all == IF in_trade
                  THEN Append(trades,
                              MakeTrade(df, i - 1,
                                        ProfitPct(Close(df, i - 1), entry_price),
                                        "Time Exit"))
                  ELSE trades
       IN  result' = IF all # <<>>
                     THEN [returned |-> TRUE, is_none |-> FALSE, trades |-> all,
                           stats |-> Stats(all)]
                     ELSE NoResult
    /\ pc' = "done"
    /\ UNCHANGED <<df_1m, daily_patterns, df, i, in_trade, entry_price,
                   entry_idx, trades, hist, calls, first>>
    /\ UNCHANGED others

\* lines 210-231: the loop is over
Finish ==
    /\ pc = "scan"
    /\ ~(i < Len(df) - ScanTail)
    /\ result' = IF trades # <<>>
                 THEN [returned |-> TRUE, is_none |-> FALSE, trades |-> trades,
                       stats |-> Stats(trades)]
                 ELSE NoResult
    /\ pc' = "done"
    /\ UNCHANGED <<df_1m, daily_patterns, df, i, in_trade, entry_price,
                   entry_idx, trades, hist, calls, first>>
    /\ UNCHANGED others

Next ==
    \/ RejectInput
    \/ RejectVolatility
    \/ Prepare
    \/ OpenPosition
    \/ ClosePosition
    \/ HoldPosition
    \/ IdleBar
    \/ Finish

Spec == Init /\ [][Next]_vars

---------------------------------------------------------------------------
(* Lines 233-235: the handler of the try block that spans lines 127-231.   *)
(* An exception raised by any statement of the scan ends the call there;   *)
(* which statement raises is left open, so the call may end so at any bar. *)

\* the bars at which the closes of these rows move
RaisingMoveBars == {19, 25, 26, 30}

InitRaising ==
    /\ \E n \in Lengths, S \in SUBSET RaisingMoveBars :
          /\ Cardinality(S) <= MaxMoves
          /\ \E lv \in [S -> Levels] : df_1m = Series(n, S, lv)
    /\ daily_patterns \in Profiles
    /\ pc = "call"
    /\ df = <<>>
    /\ i = 0
    /\ in_trade = FALSE
    /\ entry_price = 0
    /\ entry_idx = 0
    /\ trades = <<>>
    /\ result = Pending
    /\ hist = NoHist
    /\ calls = 1
    /\ first = Pending
    /\ OthersIdle

\* a handler that returns the trades appended so far
RaiseReturnsPartial ==
    /\ InScan
    /\ result' = IF trades # <<>>
                 THEN [returned |-> TRUE, is_none |-> FALSE, trades |-> trades,
                       stats |-> Stats(trades)]
                 ELSE NoResult
    /\ pc' = "done"
    /\ UNCHANGED <<df_1m, daily_patterns, df, i, in_trade, entry_price,
                   entry_idx, trades, hist, calls, first>>
    /\ UNCHANGED others

\* lines 233-235: except Exception ... return None, None
Raise ==
    /\ InScan
    /\ result' = NoResult
    /\ pc' = "done"
    /\ UNCHANGED <<df_1m, daily_patterns, df, i, in_trade, entry_price,
                   entry_idx, trades, hist, calls, first>>
    /\ UNCHANGED others

NextRaising ==
    \/ RejectInput
    \/ RejectVolatility
    \/ Prepare
    \/ OpenPosition
    \/ ClosePosition
    \/ HoldPosition
    \/ IdleBar
    \/ Finish
    \/ Raise

SpecRaising == InitRaising /\ [][NextRaising]_vars

---------------------------------------------------------------------------
(* Lines 210-231 on their own: the scan is over and the list of trades is  *)
(* any list of up to MaxTrades trades whose profits are drawn from         *)
(* Profits.  The stats read the profit_pct column only; the other columns  *)
(* of these trades are placeholders.                                       *)

MaxTrades == 3
\* profits in percent, all of them whole tenths
Profits == {Frac(1, 1), Frac(-1, 2), Frac(4, 5), Frac(0, 1), Frac(-3, 10)}

TradeOfProfit(p) ==
    [entry_time |-> 0, entry_price |-> BasePrice, exit_time |-> 0,
     exit_price |-> BasePrice, profit_pct |-> p, hold_minutes |-> 0,
     exit_reason |-> "Time Exit"]

TradeLists ==
    UNION {[1..n -> {TradeOfProfit(p) : p \in Profits}] : n \in 0..MaxTrades}

InitStats ==
    /\ df_1m = Series(MinBars, {}, <<>>)
    /\ daily_patterns = [is_none |-> FALSE, annual_volatility |-> MinVolatilityPct,
                         in_uptrend |-> TRUE]
    /\ pc = "scan"
    /\ df = df_1m
    /\ i = MinBars - ScanTail
    /\ in_trade = FALSE
    /\ entry_price = 0
    /\ entry_idx = 0
    /\ trades \in TradeLists
    /\ result = Pending
    /\ hist = NoHist
    /\ calls = 1
    /\ first = Pending
    /\ OthersIdle

NextStats == Finish

SpecStats == InitStats /\ [][NextStats]_vars

---------------------------------------------------------------------------
(* StockAnalyzer.calculate_rsi (src/src/analyzer.py, lines 34-46): the     *)
(* same formula as lines 139-143 of the scan, with the window a parameter. *)
(* The analyzer's frame is sorted by Date when it is constructed (line 24).*)

AnalyzerLen == 18
Windows == {2, 3, 14}
AnalyzerMoveBars == {1, 2, 3, 12, 13, 14, 15}

\* no scan is running
ScanIdle ==
    /\ df_1m = <<>>
    /\ daily_patterns = NoProfile
    /\ pc = "idle"
    /\ df = <<>>
    /\ i = 0
    /\ in_trade = FALSE
    /\ entry_price = 0
    /\ entry_idx = 0
    /\ trades = <<>>
    /\ result = Pending
    /\ hist = NoHist
    /\ calls = 1
    /\ first = Pending

\* delta = self.df['Close'].diff() at position k: NaN at position 0
rsi_delta(d, k) == IF k = 0 THEN NaN ELSE Frac(Close(d, k) - Close(d, k - 1), 1)

\* delta.where(delta > 0, 0) at position k: the delta where it is positive
\* and 0 elsewhere, where it is NaN included
GainWhere(d, k) ==
    LET x == rsi_delta(d, k)
    IN  IF x.kind = "num" /\ x.num > 0 THEN x.num ELSE 0
\* -delta.where(delta < 0, 0) at position k
LossWhere(d, k) ==
    LET x == rsi_delta(d, k)
    IN  IF x.kind = "num" /\ x.num < 0 THEN -x.num ELSE 0

\* (...).rolling(window=w).mean() at position k: NaN until w terms are there
rsi_gain(d, k, w) ==
    IF k < w - 1 THEN NaN
    ELSE Frac(SumFrom([j \in (k - w + 1)..k |-> GainWhere(d, j)],
                      k - w + 1, k), w)
rsi_loss(d, k, w) ==
    IF k < w - 1 THEN NaN
    ELSE Frac(SumFrom([j \in (k - w + 1)..k |-> LossWhere(d, j)],
                      k - w + 1, k), w)

\* rs = gain / loss: x/0 is +inf for x > 0 and NaN for x = 0
rsi_rs(d, k, w) ==
    LET g == rsi_gain(d, k, w)
        l == rsi_loss(d, k, w)
    IN  IF g.kind = "nan" \/ l.kind = "nan" THEN NaN
        ELSE IF l.num = 0 THEN (IF g.num = 0 THEN NaN ELSE Inf)
        ELSE Frac(g.num * l.den, g.den * l.num)

\* rsi = 100 - (100 / (1 + rs)) at position k; 100 / inf is 0
rsi_value(d, k, w) ==
    LET x == rsi_rs(d, k, w)
    IN  IF x.kind = "nan" THEN NaN
        ELSE IF x.kind = "inf" THEN Frac(100, 1)
        ELSE Frac(100 * (x.den + x.num) - 100 * x.den, x.den + x.num)

\* the series the method returns
calculate_rsi(d, w) == [k \in 1..Len(d) |-> rsi_value(d, k - 1, w)]

InitAnalyzer ==
    /\ ScanIdle
    /\ \E S \in SUBSET AnalyzerMoveBars :
          /\ Cardinality(S) <= MaxMoves
          /\ \E lv \in [S -> Levels] : analyzer_df = Series(AnalyzerLen, S, lv)
    /\ window = 0
    /\ returned_rsi = <<>>
    /\ ProfilerIdle
    /\ MainIdle
    /\ OneRun
    /\ CacheEmpty

CalculateRsi ==
    /\ analyzer_df # <<>>
    /\ returned_rsi = <<>>
    /\ \E w \in Windows :
          /\ window' = w
          /\ returned_rsi' = calculate_rsi(analyzer_df, w)
    /\ UNCHANGED <<analyzer_df, not_analyzer>>

NextAnalyzer == CalculateRsi

SpecAnalyzer == InitAnalyzer /\ [][NextAnalyzer]_vars

---------------------------------------------------------------------------
(* DayTradingAlgorithm.analyze_daily_patterns, lines 36-80.  The daily     *)
(* frames hold the columns Date and Close only, so line 62 sets the range  *)
(* to 0 and line 68 the win rate to 50.  annual_volatility is a standard   *)
(* deviation times a square root and is not computed here: the scan's      *)
(* specifications draw it from VolatilityPcts.                             *)

MinDailyBars == 100
TrendWindow == 50
LongTrendWindow == 200
RecentOffset == 20

\* how far before the end of the frame the daily closes move
DailyMoveOffsets == {1, 19, 20, 21, 22}
DailyLengths ==
    {MinDailyBars - 1, MinDailyBars, LongTrendWindow - 1, LongTrendWindow}

\* df['Close'].rolling(window=w).mean() at position k
RollingMean(d, k, w) ==
    IF k < w - 1 THEN NaN
    ELSE Frac(SumFrom([j \in (k - w + 1)..k |-> Close(d, j)], k - w + 1, k), w)

\* df.iloc[-k]: the k-th row from the end, the last row being iloc[-1]
IlocFromEnd(d, k) == d[Len(d) + 1 - k]

\* line 56: (df.iloc[-1]['Close'] / df.iloc[-20]['Close'] - 1) * 100
recent_20_return(d) ==
    Frac(100 * (IlocFromEnd(d, 1).Close - IlocFromEnd(d, RecentOffset).Close),
         IlocFromEnd(d, RecentOffset).Close)

\* line 58 with the averages taken over the rows there are when the window
\* is not full (rolling(window, min_periods=1))
in_uptrendOverPartialWindow(d) ==
    LET last == Len(d) - 1
        MeanOfLast(w) ==
            LET from == IF last - w + 1 < 0 THEN 0 ELSE last - w + 1
            IN  Frac(SumFrom([j \in from..last |-> Close(d, j)], from, last),
                     last - from + 1)
        a == MeanOfLast(TrendWindow)
        b == MeanOfLast(LongTrendWindow)
    IN  a.num * b.den > b.num * a.den

\* line 58: SMA50 > SMA200 at the last row, False when either is NaN
in_uptrend(d) ==
    LET a == RollingMean(d, Len(d) - 1, TrendWindow)
        b == RollingMean(d, Len(d) - 1, LongTrendWindow)
    IN  /\ a.kind = "num"
        /\ b.kind = "num"
        /\ a.num * b.den > b.num * a.den

\* lines 45-77 on a frame of 100 rows or more
analyze_daily_patterns(rows) ==
    LET d == SortByDate(rows)
    IN  [is_none |-> FALSE,
         recent_trend_20d |-> recent_20_return(d),
         in_uptrend |-> in_uptrend(d),
         avg_daily_range_pct |-> Frac(0, 1),
         win_rate |-> Frac(50, 1),
         current_price |-> IlocFromEnd(d, 1).Close]

InitProfiler ==
    /\ ScanIdle
    /\ AnalyzerIdle
    /\ \E n \in DailyLengths, O \in SUBSET DailyMoveOffsets :
          /\ Cardinality(O) <= MaxMoves
          /\ \E lv \in [{n - o : o \in O} -> Levels] :
                df_daily = Series(n, {n - o : o \in O}, lv)
    /\ profiler_pc = "call"
    /\ patterns = NoPatterns
    /\ MainIdle
    /\ OneRun
    /\ CacheEmpty

\* lines 41-42
ProfileRejected ==
    /\ profiler_pc = "call"
    /\ Len(df_daily) < MinDailyBars
    /\ patterns' = NoPatterns
    /\ profiler_pc' = "done"
    /\ UNCHANGED <<df_daily, not_profiler>>

\* lines 44-77
Profile ==
    /\ profiler_pc = "call"
    /\ Len(df_daily) >= MinDailyBars
    /\ patterns' = analyze_daily_patterns(df_daily)
    /\ profiler_pc' = "done"
    /\ UNCHANGED <<df_daily, not_profiler>>

NextProfiler ==
    \/ ProfileRejected
    \/ Profile

SpecProfiler == InitProfiler /\ [][NextProfiler]_vars

---------------------------------------------------------------------------
(* main, lines 238-341: the training loop over the symbols, the backtest   *)
(* loop over the profiled symbols, the ranking and the report.  A symbol   *)
(* is its position in the list of symbols.  A cached file is described by  *)
(* what the loops ask of it: whether it can be read, how many rows it      *)
(* holds, whether it has a Date column, how many of its rows are stamped   *)
(* at hour 0, whether analyze_daily_patterns returns a profile for it and  *)
(* what backtest_intraday_trades returns for it.  Writing the algorithm    *)
(* file (line 285) is taken to succeed.                                    *)

MinTradesToReport == 3
TopN == 15

NSymbols == 17
MaxFaults == 1
SymbolCounts == {1, NSymbols}
PnlPatterns == {"rising", "falling", "mixed"}
FaultKinds == {"d_unreadable", "d_short", "d_no_date", "d_intraday",
               "d_unprofilable", "m_missing", "m_unreadable", "m_short",
               "m_none", "m_few"}
\* the symbols whose files may be at fault
FaultPositions(n) == {1, 2, n - 1, n} \cap (1..n)

\* return None, None
NoneStats == [is_none |-> TRUE, total_trades |-> 0, total_pnl_pct |-> Frac(0, 1)]

\* total_pnl_pct of symbol k, in tenths of a percent
PnlTenths(pat, k) ==
    CASE pat = "rising" -> k
      [] pat = "falling" -> -k
      [] OTHER -> ((7 * k) % 5) - 2

GoodDaily ==
    [readable |-> TRUE, rows |-> MinDailyBars, has_date |-> TRUE,
     midnight |-> MinDailyBars, profile_ok |-> TRUE]
GoodMinute(pat, k) ==
    [exists |-> TRUE, readable |-> TRUE, rows |-> MinBars,
     stats |-> [is_none |-> FALSE,
                total_trades |-> MinTradesToReport + (k % 2),
                total_pnl_pct |-> Frac(PnlTenths(pat, k), 10)]]
GoodFiles(pat, k) == [daily |-> GoodDaily, minute |-> GoodMinute(pat, k)]

Faulty(f, kind) ==
    CASE kind = "d_unreadable" -> [f EXCEPT !.daily.readable = FALSE]
      [] kind = "d_short" -> [f EXCEPT !.daily.rows = MinDailyBars - 1,
                                       !.daily.midnight = MinDailyBars - 1]
      [] kind = "d_no_date" -> [f EXCEPT !.daily.has_date = FALSE]
      [] kind = "d_intraday" -> [f EXCEPT !.daily.midnight = MinDailyBars - 1]
      [] kind = "d_unprofilable" -> [f EXCEPT !.daily.profile_ok = FALSE]
      [] kind = "m_missing" -> [f EXCEPT !.minute.exists = FALSE]
      [] kind = "m_unreadable" -> [f EXCEPT !.minute.readable = FALSE]
      [] kind = "m_short" -> [f EXCEPT !.minute.rows = MinBars - 1]
      [] kind = "m_none" -> [f EXCEPT !.minute.stats = NoneStats]
      [] OTHER -> [f EXCEPT !.minute.stats.total_trades = MinTradesToReport - 1]

InitMain ==
    /\ ScanIdle
    /\ AnalyzerIdle
    /\ ProfilerIdle
    /\ \E n \in SymbolCounts, pat \in PnlPatterns :
          \E F \in SUBSET FaultPositions(n) :
             /\ Cardinality(F) <= MaxFaults
             /\ \E kind \in [F -> FaultKinds] :
                   cache = [k \in 1..n |->
                               IF k \in F
                               THEN Faulty(GoodFiles(pat, k), kind[k])
                               ELSE GoodFiles(pat, k)]
    /\ skip_training = FALSE
    /\ main_pc = "start"
    /\ cursor = 0
    /\ algorithm_dict = <<>>
    /\ results = <<>>
    /\ report = <<>>
    /\ visited = NoVisits
    /\ OneRun
    /\ CacheEmpty

\* lines 250-263: a loaded algorithm file, if kept, replaces the training
Start ==
    /\ main_pc = "start"
    /\ \E loaded \in BOOLEAN :
          /\ skip_training' = loaded
          /\ algorithm_dict' = IF loaded THEN [k \in 1..Len(cache) |-> k] ELSE <<>>
          /\ main_pc' = IF loaded THEN "backtest" ELSE "train"
    /\ cursor' = 1
    /\ UNCHANGED <<cache, results, report, visited, not_main>>

InTraining == main_pc = "train" /\ cursor <= Len(cache)

\* lines 270-272 and 276-277: continue
TrainSkip ==
    /\ InTraining
    /\ LET d == cache[cursor].daily
       IN  \/ ~d.readable
           \/ d.rows < MinDailyBars
           \/ d.has_date /\ d.midnight < MinDailyBars
    /\ cursor' = cursor + 1
    /\ visited' = [visited EXCEPT !.train = Append(@, cursor)]
    /\ UNCHANGED <<cache, skip_training, main_pc, algorithm_dict, results,
                   report, not_main>>

\* line 275 on a frame without a Date column: df_daily['Date'] raises
\* KeyError, and no handler stands between the line and the caller of main
TrainRaise ==
    /\ InTraining
    /\ LET d == cache[cursor].daily
       IN  d.readable /\ d.rows >= MinDailyBars /\ ~d.has_date
    /\ main_pc' = "raised"
    /\ visited' = [visited EXCEPT !.train = Append(@, cursor)]
    /\ UNCHANGED <<cache, skip_training, cursor, algorithm_dict, results,
                   report, not_main>>

\* lines 279-281
TrainProfile ==
    /\ InTraining
    /\ LET d == cache[cursor].daily
       IN  /\ d.readable /\ d.rows >= MinDailyBars
           /\ d.has_date /\ d.midnight >= MinDailyBars
           /\ algorithm_dict' = IF d.profile_ok
                                THEN Append(algorithm_dict, cursor)
                                ELSE algorithm_dict
    /\ cursor' = cursor + 1
    /\ visited' = [visited EXCEPT !.train = Append(@, cursor)]
    /\ UNCHANGED <<cache, skip_training, main_pc, results, report, not_main>>

\* lines 283-288
EndTraining ==
    /\ main_pc = "train"
    /\ cursor > Len(cache)
    /\ main_pc' = IF algorithm_dict # <<>> THEN "backtest" ELSE "done"
    /\ cursor' = 1
    /\ UNCHANGED <<cache, skip_training, algorithm_dict, results, report,
                   visited, not_main>>

InBacktest == main_pc = "backtest" /\ cursor <= Len(algorithm_dict)

\* lines 299-311: continue
BacktestSkip ==
    /\ InBacktest
    /\ LET m == cache[algorithm_dict[cursor]].minute
       IN  ~m.exists \/ ~m.readable \/ m.rows < MinBars
    /\ cursor' = cursor + 1
    /\ visited' = [visited EXCEPT !.backtest = Append(@, algorithm_dict[cursor])]
    /\ UNCHANGED <<cache, skip_training, main_pc, algorithm_dict, results,
                   report, not_main>>

\* line 316 with no test of the number of trades
ReportableAny(stats) == ~stats.is_none

\* line 316, negated
Reportable(stats) ==
    ~(stats.is_none \/ stats.total_trades < MinTradesToReport)

\* lines 314-323
BacktestSymbol ==
    /\ InBacktest
    /\ LET symbol == algorithm_dict[cursor]
           m == cache[symbol].minute
       IN  /\ m.exists /\ m.readable /\ m.rows >= MinBars
           /\ results' = IF Reportable(m.stats)
                         THEN Append(results,
                                     [symbol |-> symbol, stats |-> m.stats])
                         ELSE results
           /\ visited' = [visited EXCEPT !.backtest = Append(@, symbol)]
    /\ cursor' = cursor + 1
    /\ UNCHANGED <<cache, skip_training, main_pc, algorithm_dict, report,
                   not_main>>

\* x['stats']['total_pnl_pct'] of a is below that of b
PnlBelow(a, b) ==
    a.stats.total_pnl_pct.num * b.stats.total_pnl_pct.den
      < b.stats.total_pnl_pct.num * a.stats.total_pnl_pct.den

RECURSIVE MergeByPnl(_, _)
\* two runs in descending order merged; of equal keys the earlier stays first
MergeByPnl(a, b) ==
    IF a = <<>> THEN b
    ELSE IF b = <<>> THEN a
    ELSE IF PnlBelow(a[1], b[1]) THEN <<b[1]>> \o MergeByPnl(a, Tail(b))
    ELSE <<a[1]>> \o MergeByPnl(Tail(a), b)

RECURSIVE SortResults(_)
\* line 327: results.sort(key=..., reverse=True), a stable sort
SortResults(rs) ==
    IF Len(rs) <= 1 THEN rs
    ELSE LET h == Len(rs) \div 2
         IN  MergeByPnl(SortResults(SubSeq(rs, 1, h)),
                        SortResults(SubSeq(rs, h + 1, Len(rs))))

\* results[:15]
TopRows(rs) == SubSeq(rs, 1, IF Len(rs) < TopN THEN Len(rs) ELSE TopN)

\* lines 327-341
Report ==
    /\ main_pc = "backtest"
    /\ cursor > Len(algorithm_dict)
    /\ results' = SortResults(results)
    /\ report' = TopRows(SortResults(results))
    /\ main_pc' = "done"
    /\ UNCHANGED <<cache, skip_training, cursor, algorithm_dict, visited,
                   not_main>>

NextMain ==
    \/ Start
    \/ TrainSkip
    \/ TrainRaise
    \/ TrainProfile
    \/ EndTraining
    \/ BacktestSkip
    \/ BacktestSymbol
    \/ Report

SpecMain == InitMain /\ [][NextMain]_vars

---------------------------------------------------------------------------
(* main run twice on the same files, the second time with the symbols      *)
(* taken up in the opposite order (get_all_stocks, or the keys of the      *)
(* algorithm file, listed the other way round).  names maps the positions  *)
(* of a run to the tickers, so that the two rankings can be compared.      *)

InitOrders ==
    /\ ScanIdle
    /\ AnalyzerIdle
    /\ ProfilerIdle
    /\ \E n \in SymbolCounts, pat \in PnlPatterns :
          \E F \in SUBSET FaultPositions(n) :
             /\ Cardinality(F) <= MaxFaults
             /\ \E kind \in [F -> FaultKinds] :
                   cache = [k \in 1..n |->
                               IF k \in F
                               THEN Faulty(GoodFiles(pat, k), kind[k])
                               ELSE GoodFiles(pat, k)]
    /\ skip_training = FALSE
    /\ main_pc = "start"
    /\ cursor = 0
    /\ algorithm_dict = <<>>
    /\ results = <<>>
    /\ report = <<>>
    /\ visited = NoVisits
    /\ names = [k \in 1..Len(cache) |-> k]
    /\ runs = 1
    /\ first_ranking = <<>>
    /\ CacheEmpty

\* the tickers of the result list, in its order
Ranking == [k \in 1..Len(results) |-> names[results[k].symbol]]

\* the second run: the same files and the same choice of line 254, the
\* symbols in the opposite order
RunReordered ==
    /\ main_pc = "done"
    /\ runs = 1
    /\ runs' = 2
    /\ first_ranking' = Ranking
    /\ cache' = Reversed(cache)
    /\ names' = Reversed(names)
    /\ algorithm_dict' = IF skip_training THEN [k \in 1..Len(cache) |-> k]
                         ELSE <<>>
    /\ main_pc' = IF skip_training THEN "backtest" ELSE "train"
    /\ cursor' = 1
    /\ results' = <<>>
    /\ report' = <<>>
    /\ visited' = NoVisits
    /\ UNCHANGED <<skip_training, scan_vars, analyzer_vars, profiler_vars,
                   cache_vars>>

NextOrders ==
    \/ Start
    \/ TrainSkip
    \/ TrainRaise
    \/ TrainProfile
    \/ EndTraining
    \/ BacktestSkip
    \/ BacktestSymbol
    \/ Report
    \/ RunReordered

SpecOrders == InitOrders /\ [][NextOrders]_vars

---------------------------------------------------------------------------
(* CacheManager (src/src/cache_manager.py): save_cached_symbol,            *)
(* save_parquet_symbol and clear_cache on one cache directory.  A ticker   *)
(* is the sequence of its characters and a file name or an index key the   *)
(* ticker followed by "_", the frequency and the extension, so that        *)
(* str.startswith is the prefix test on sequences.  An index entry is kept *)
(* with its key and its 'parquet' field; the other fields are left out.    *)
(* os.remove is taken to succeed; df.to_parquet may raise.                 *)

Tickers == {<<"T">>, <<"T", "S", "L", "A">>, <<"F">>}
Freqs == {"daily", "1m"}
\* the frames handed to the save methods
DfKinds == {"none", "empty", "rows", "rows_no_date"}

\* f"{symbol}_{freq}.parquet"
FileName(symbol, freq) == symbol \o <<"_", freq, ".parquet">>
\* f"{symbol}_{freq}"
Key(symbol, freq) == symbol \o <<"_", freq>>

\* str.startswith
StartsWith(str, prefix) ==
    /\ Len(prefix) <= Len(str)
    /\ SubSeq(str, 1, Len(prefix)) = prefix
\* fname.endswith('.csv') or fname.endswith('.parquet')
IsCacheFile(fname) == fname[Len(fname)] \in {".csv", ".parquet"}

\* self.index[key] = {...}
IndexPut(idx, key, fname) ==
    {e \in idx : e.key # key} \cup {[key |-> key, parquet |-> fname]}

InitCache ==
    /\ ScanIdle
    /\ AnalyzerIdle
    /\ ProfilerIdle
    /\ MainIdle
    /\ OneRun
    /\ CacheEmpty

\* the call that is about to run, with the state it starts from
Calling(op, symbol) ==
    [NoCall EXCEPT !.op = op, !.symbol = symbol, !.dir_before = cache_dir,
                   !.index_before = index]

\* lines 113-138 for the frame handed in: the file is written and the entry set
\* unless the frame is None or empty or to_parquet raises
\* what save_cached_symbol returns: False at line 115 and from the handler
\* of line 139, True at line 138
SaveReturns(frame, written) == frame \notin {"none", "empty"} /\ written

\* line 119: the directory after save_cached_symbol
DirAfterSave(dir, symbol, frame, freq, written) ==
    IF SaveReturns(frame, written) THEN dir \cup {FileName(symbol, freq)}
    ELSE dir

\* lines 130-137: the index after save_cached_symbol
IndexAfterSave(idx, symbol, frame, freq, written) ==
    IF SaveReturns(frame, written)
    THEN IndexPut(idx, Key(symbol, freq), FileName(symbol, freq))
    ELSE idx

SaveCached(symbol, frame, freq, written) ==
    /\ cache_dir' = DirAfterSave(cache_dir, symbol, frame, freq, written)
    /\ index' = IndexAfterSave(index, symbol, frame, freq, written)

\* save_cached_symbol, lines 104-140
save_cached_symbol ==
    \E symbol \in Tickers, frame \in DfKinds, freq \in Freqs, written \in BOOLEAN :
        /\ SaveCached(symbol, frame, freq, written)
        /\ last_call' = Calling("save_cached_symbol", symbol)
        /\ UNCHANGED not_cache

\* save_parquet_symbol, lines 142-166: df.to_parquet raises for None; the
\* entry needs df['Date'], whose KeyError the handler takes after the file
\* was written
save_parquet_symbol ==
    \E symbol \in Tickers, frame \in DfKinds, freq \in Freqs, written \in BOOLEAN :
        /\ IF frame = "none" \/ ~written
           THEN UNCHANGED <<cache_dir, index>>
           ELSE /\ cache_dir' = cache_dir \cup {FileName(symbol, freq)}
                /\ index' = IF frame = "rows_no_date" THEN index
                            ELSE IndexPut(index, Key(symbol, freq),
                                          FileName(symbol, freq))
        /\ last_call' = Calling("save_parquet_symbol", symbol)
        /\ UNCHANGED not_cache

\* line 209: the files clear_cache(symbol) removes
MatchesFile(fname, symbol) == StartsWith(fname, symbol) /\ IsCacheFile(fname)

\* line 215: the keys clear_cache(symbol) deletes
MatchesKey(key, symbol) == key = symbol \/ StartsWith(key, symbol \o <<"_">>)

\* clear_cache(symbol), lines 206-218
ClearSymbol ==
    \E symbol \in Tickers :
        /\ cache_dir' = {f \in cache_dir : ~MatchesFile(f, symbol)}
        /\ index' = {e \in index : ~MatchesKey(e.key, symbol)}
        /\ last_call' = Calling("clear_cache", symbol)
        /\ UNCHANGED not_cache

\* clear_cache(), lines 220-228
ClearAll ==
    /\ cache_dir' = {f \in cache_dir : ~IsCacheFile(f)}
    /\ index' = {}
    /\ last_call' = Calling("clear_cache", <<>>)
    /\ UNCHANGED not_cache

NextCache ==
    \/ save_cached_symbol
    \/ save_parquet_symbol
    \/ ClearSymbol
    \/ ClearAll

SpecCache == InitCache /\ [][NextCache]_vars

---------------------------------------------------------------------------
(* fetch_for_symbol (src/fetch_all.py, lines 22-55) on a CacheManager.  The *)
(* fetcher is an argument: a fetch raises, or returns None, an empty frame *)
(* or rows.  StockDataFetcher.fetch_yahoo_historical returns rows with a   *)
(* Date column or an empty frame.                                          *)

FetchOutcomes == {"raises", "none", "empty", "rows"}

\* line 31: df_daily is not None and len(df_daily) > 0, reached when the
\* fetch of line 30 did not raise
HasRows(outcome) == outcome = "rows"

\* lines 26-36: daily_ok after the first try block; line 32 drops what
\* save_cached_symbol returns, so the flag does not depend on the write
DailyOk(daily, written) == HasRows(daily)

\* fetch_for_symbol: one call, both try blocks
fetch_for_symbol ==
    \E symbol \in Tickers, daily \in FetchOutcomes, minute \in FetchOutcomes,
       daily_written \in BOOLEAN, minute_written \in BOOLEAN :
        LET \* lines 31-32
            dir1 == IF HasRows(daily)
                    THEN DirAfterSave(cache_dir, symbol, daily, "daily",
                                      daily_written)
                    ELSE cache_dir
            idx1 == IF HasRows(daily)
                    THEN IndexAfterSave(index, symbol, daily, "daily",
                                        daily_written)
                    ELSE index
            daily_ok == DailyOk(daily, daily_written)
            \* lines 49-50
            saves_minute == daily_ok /\ HasRows(minute)
        IN  /\ cache_dir' = IF saves_minute
                            THEN DirAfterSave(dir1, symbol, minute, "1m",
                                              minute_written)
                            ELSE dir1
            /\ index' = IF saves_minute
                        THEN IndexAfterSave(idx1, symbol, minute, "1m",
                                            minute_written)
                        ELSE idx1
            /\ last_call' =
                   [Calling("fetch_for_symbol", symbol) EXCEPT
                        !.daily = daily,
                        !.daily_saved = HasRows(daily)
                                        /\ SaveReturns(daily, daily_written),
                        !.minute = IF daily_ok THEN minute ELSE "unset",
                        !.minute_fetched = daily_ok]
            /\ UNCHANGED not_cache

NextFetch == fetch_for_symbol

SpecFetch == InitCache /\ [][NextFetch]_vars

---------------------------------------------------------------------------
(* The same call on rows that are not supplied in timestamp order.         *)

\* the later half of the rows first
Rotated(rows) ==
    LET h == Len(rows) \div 2
    IN  SubSeq(rows, h + 1, Len(rows)) \o SubSeq(rows, 1, h)

\* the bars at which the closes of these rows move
UnsortedMoveBars == {19, 25, 26, 30}

InitUnsorted ==
    /\ \E n \in Lengths, S \in SUBSET UnsortedMoveBars :
          /\ Cardinality(S) <= MaxMoves
          /\ \E lv \in [S -> Levels] :
                \/ df_1m = Reversed(Series(n, S, lv))
                \/ df_1m = Rotated(Series(n, S, lv))
    /\ daily_patterns \in Profiles
    /\ pc = "call"
    /\ df = <<>>
    /\ i = 0
    /\ in_trade = FALSE
    /\ entry_price = 0
    /\ entry_idx = 0
    /\ trades = <<>>
    /\ result = Pending
    /\ hist = NoHist
    /\ calls = 1
    /\ first = Pending
    /\ OthersIdle

SpecUnsorted == InitUnsorted /\ [][Next]_vars

---------------------------------------------------------------------------
(* The same call on series whose closes move by more than 2 %.             *)

\* levels 3.5 % and 2.5 % away from a position opened at 995 or at 1005
LargeMoveLevels == {970, 995, 1005, 1030}
\* before the scan, at its first bars, and 61 bars after an entry at 20
LargeMoveBars == {19, 25, 26, 30, 81}

InitLargeMove ==
    /\ \E n \in Lengths, S \in SUBSET LargeMoveBars :
          /\ Cardinality(S) <= MaxMoves
          /\ \E lv \in [S -> LargeMoveLevels] : df_1m = Series(n, S, lv)
    /\ daily_patterns \in Profiles
    /\ pc = "call"
    /\ df = <<>>
    /\ i = 0
    /\ in_trade = FALSE
    /\ entry_price = 0
    /\ entry_idx = 0
    /\ trades = <<>>
    /\ result = Pending
    /\ hist = NoHist
    /\ calls = 1
    /\ first = Pending
    /\ OthersIdle

SpecLargeMove == InitLargeMove /\ [][Next]_vars

---------------------------------------------------------------------------
(* A second call on the same inputs.  The frame of the first call is gone; *)
(* what its locals held is left in place here, so that the second call     *)
(* gets a clean start only from what lines 148-151 assign.                 *)

CallAgain ==
    /\ pc = "done"
    /\ calls = 1
    /\ calls' = 2
    /\ first' = result
    /\ result' = Pending
    /\ pc' = "call"
    /\ UNCHANGED <<df_1m, daily_patterns, df, i, in_trade, entry_price,
                   entry_idx, trades, hist>>
    /\ UNCHANGED others

NextRerun ==
    \/ RejectInput
    \/ RejectVolatility
    \/ Prepare
    \/ OpenPosition
    \/ ClosePosition
    \/ HoldPosition
    \/ IdleBar
    \/ Finish
    \/ CallAgain

SpecRerun == Init /\ [][NextRerun]_vars

---------------------------------------------------------------------------
(* The properties.  Each is stated over the rows, the profile and the      *)
(* recorded trades with its own arithmetic, not with the operators of the  *)
(* scan above.                                                             *)

\* the position in d of the row stamped t
BarOfTime(d, t) == CHOOSE k \in 0..(Len(d) - 1) : d[k + 1].Date = t

\* the bars the scan visits in a frame of n rows
ScannedBars(n) == 20..(n - 6)

\* the sum of the rises (or of the falls) of the close over the 14 bars
\* that end at bar k
Rises(d, k) ==
    SumFrom([j \in (k - 13)..k |->
                IF d[j + 1].Close > d[j].Close
                THEN d[j + 1].Close - d[j].Close ELSE 0], k - 13, k)
Falls(d, k) ==
    SumFrom([j \in (k - 13)..k |->
                IF d[j + 1].Close < d[j].Close
                THEN d[j].Close - d[j + 1].Close ELSE 0], k - 13, k)

\* close[k] < SMA5[k] and RSI14[k] < 35, both defined (k >= 14)
DipSignal(d, k) ==
    /\ 5 * d[k + 1].Close
         < d[k - 3].Close + d[k - 2].Close + d[k - 1].Close + d[k].Close
           + d[k + 1].Close
    /\ Falls(d, k) > 0
    /\ 100 * Rises(d, k) < 35 * (Rises(d, k) + Falls(d, k))

\* the scan is at a bar it is about to decide
AtScannedBar == pc = "scan" /\ i \in ScannedBars(Len(df))

\* the call ran its scan to the end and returned
ScanReturned == pc = "done" /\ Len(df) >= 100 /\ i = Len(df) - 5

\* C1: at most one position is open at any time: the opened positions are
\* one more than the closed ones exactly while in_trade holds and as many
\* otherwise, every close emitted one trade, and between two consecutive
\* openings lies the close of the earlier one.
C1_SinglePosition ==
    /\ Len(hist.opens) - Len(hist.closes) = (IF in_trade THEN 1 ELSE 0)
    /\ Len(hist.closes) = Len(trades)
    /\ \A k \in 1..(Len(hist.opens) - 1) :
          /\ hist.opens[k] < hist.closes[k]
          /\ hist.closes[k] <= hist.opens[k + 1]

\* a position was opened, closed and another one opened
C1_Witness == Len(hist.opens) >= 2 /\ in_trade

\* C2: at a scanned bar with no position open, a position is opened at
\* close[i] if and only if the profile is in an uptrend, close[i] < SMA5[i]
\* and RSI14[i] < 35; the bar that opens it evaluates no exit condition and
\* emits no trade.
C2_EntryRule ==
    [][(AtScannedBar /\ ~in_trade) =>
          /\ in_trade' <=> (daily_patterns.in_uptrend /\ DipSignal(df, i))
          /\ in_trade' =>
                /\ entry_price' = df[i + 1].Close
                /\ entry_idx' = i
                /\ trades' = trades
                /\ hist'.exit_eval # i
                /\ i' = i + 1]_vars

\* a position opened at a bar where the signal held
C2_Witness ==
    /\ in_trade
    /\ pc = "scan"
    /\ i = entry_idx + 1
    /\ DipSignal(df, entry_idx)
    /\ hist.exit_eval < entry_idx

\* C3: with a position open at bar i the exit conditions are tested in the
\* order profit target (>= 0.8), stop loss (<= -0.5), then hold > 60 or
\* |profit| > 2.0; the first match alone gives the reason of the one trade
\* emitted on the bar, and no match emits none.
C3_ExitPriority ==
    [][(AtScannedBar /\ in_trade) =>
          LET gain == df[i + 1].Close - entry_price
              hold == i - entry_idx
              expected ==
                  IF gain * 1000 >= 8 * entry_price THEN "Profit Target"
                  ELSE IF gain * 1000 <= -5 * entry_price THEN "Stop Loss"
                  ELSE IF hold > 60 THEN "Time Exit"
                  ELSE IF gain * 100 > 2 * entry_price
                          \/ -gain * 100 > 2 * entry_price THEN "Large Move"
                  ELSE "none"
          IN  IF expected = "none"
              THEN trades' = trades /\ in_trade'
              ELSE /\ ~in_trade'
                   /\ Len(trades') = Len(trades) + 1
                   /\ SubSeq(trades', 1, Len(trades)) = trades
                   /\ trades'[Len(trades')].exit_reason = expected]_vars

\* a trade that met the profit target on the bar its hold passed 60
C3_Witness ==
    \E k \in 1..Len(trades) :
        /\ trades[k].exit_reason = "Profit Target"
        /\ trades[k].hold_minutes > 60

\* C4: every emitted trade has its exit bar strictly after its entry bar,
\* and hold_minutes is the exit bar minus the entry bar; the bars are those
\* at which the position was opened and closed.
C4_HoldBars ==
    \A k \in 1..Len(trades) :
        LET entry_bar == BarOfTime(df, trades[k].entry_time)
            exit_bar == BarOfTime(df, trades[k].exit_time)
        IN  /\ entry_bar = hist.opens[k]
            /\ exit_bar = hist.closes[k]
            /\ exit_bar > entry_bar
            /\ trades[k].hold_minutes = exit_bar - entry_bar

\* a trade closed on the bar after its entry and one closed later
C4_Witness ==
    /\ \E k \in 1..Len(trades) : trades[k].hold_minutes = 1
    /\ \E k \in 1..Len(trades) : trades[k].hold_minutes > 1

\* C5: a Profit Target trade has profit_pct >= 0.8 and a Stop Loss trade
\* has profit_pct <= -0.5, where profit_pct is the recorded one and equals
\* (exit_price - entry_price) / entry_price * 100 of the trade's own
\* prices, which are the closes of its entry and exit bars.
C5_ReasonMatchesProfit ==
    \A k \in 1..Len(trades) :
        LET t == trades[k]
            gain == t.exit_price - t.entry_price
        IN  /\ t.entry_price = df[hist.opens[k] + 1].Close
            /\ t.exit_price = df[hist.closes[k] + 1].Close
            /\ t.profit_pct.kind = "num"
            /\ t.profit_pct.num * t.entry_price = gain * 100 * t.profit_pct.den
            /\ t.exit_reason = "Profit Target" => gain * 1000 >= 8 * t.entry_price
            /\ t.exit_reason = "Stop Loss" => gain * 1000 <= -5 * t.entry_price

\* a Profit Target trade at exactly +0.8 %
C5_Witness ==
    \E k \in 1..Len(trades) :
        /\ trades[k].exit_reason = "Profit Target"
        /\ (trades[k].exit_price - trades[k].entry_price) * 1000
             = 8 * trades[k].entry_price

\* C6: no position is opened on the bar on which one was closed: each trade
\* is entered on a bar after the exit bar of the trade before it, and so is
\* the position that is open now.
C6_NoReentryOnExitBar ==
    /\ \A k \in 1..(Len(trades) - 1) :
          BarOfTime(df, trades[k + 1].entry_time)
            > BarOfTime(df, trades[k].exit_time)
    /\ (in_trade /\ trades # <<>>) =>
          entry_idx > BarOfTime(df, trades[Len(trades)].exit_time)

\* two trades, the first closed on a bar where the entry signal held, the
\* second entered on the very next bar
C6_Witness ==
    /\ Len(trades) >= 2
    /\ daily_patterns.in_uptrend
    /\ DipSignal(df, BarOfTime(df, trades[1].exit_time))
    /\ BarOfTime(df, trades[2].entry_time)
         = BarOfTime(df, trades[1].exit_time) + 1

\* C7: with annual_volatility below 0.10 the call never scans, emits no
\* trade and returns neither trades nor stats.
C7_VolatilityGate ==
    (~daily_patterns.is_none /\ daily_patterns.annual_volatility * 10 < 100) =>
        /\ pc # "scan"
        /\ trades = <<>>
        /\ hist.opens = <<>>
        /\ pc = "done" => (result.is_none /\ result.trades = <<>>
                           /\ result.stats = NoStats)

\* the call returned under the gate for an uptrend profile and a series
\* that dips at a scanned bar
C7_Witness ==
    /\ pc = "done"
    /\ result.returned
    /\ ~daily_patterns.is_none
    /\ daily_patterns.annual_volatility = 5
    /\ daily_patterns.in_uptrend
    /\ Len(df_1m) >= 100
    /\ \E k \in ScannedBars(Len(df_1m)) : DipSignal(df_1m, k)

\* C8: with in_uptrend false the scan never opens a position and the call
\* returns no trades.
C8_NoUptrendNoTrades ==
    (~daily_patterns.is_none /\ ~daily_patterns.in_uptrend) =>
        /\ ~in_trade
        /\ trades = <<>>
        /\ hist.opens = <<>>
        /\ pc = "done" => (result.is_none /\ result.trades = <<>>)

\* a full scan without uptrend over a series that dips at a scanned bar
C8_Witness ==
    /\ ScanReturned
    /\ ~daily_patterns.is_none
    /\ ~daily_patterns.in_uptrend
    /\ \E k \in ScannedBars(Len(df)) : DipSignal(df, k)

\* C9: a second call on the same series and profile returns what the
\* first call returned: the same trades in the same order with the same
\* fields, and the same stats.
C9_SameResultTwice == (calls = 2 /\ pc = "done") => result = first

\* the second call returned trades, and the first call had left a
\* position open
C9_Witness ==
    /\ calls = 2
    /\ pc = "done"
    /\ Len(result.trades) >= 1
    /\ in_trade

\* C10: a position still open when the scan ends emits no trade: the call
\* returns exactly the trades of the exits that fired, one fewer than the
\* positions opened, and none of them is the open position's.
C10_OpenPositionDiscarded ==
    ScanReturned =>
        /\ result.trades = trades
        /\ Len(result.trades) = Len(hist.closes)
        /\ in_trade =>
              /\ Len(result.trades) = Len(hist.opens) - 1
              /\ \A k \in 1..Len(result.trades) :
                    result.trades[k].entry_time # df[entry_idx + 1].Date

\* the scan ended with a position open after an earlier trade
C10_Witness ==
    /\ ScanReturned
    /\ in_trade
    /\ Len(hist.opens) = 2
    /\ Len(result.trades) = 1

\* C11: the trades of one run are in chronological order: the entry and
\* exit times increase strictly along the list (entry_1 < exit_1 < entry_2
\* < exit_2 < ...), and so do the bars they stand for, also for rows that
\* were not supplied in timestamp order.
C11_ChronologicalTrades ==
    /\ \A k \in 1..Len(trades) : trades[k].entry_time < trades[k].exit_time
    /\ \A k \in 1..(Len(trades) - 1) :
          trades[k].exit_time < trades[k + 1].entry_time
    /\ \A k \in 1..Len(trades) :
          \E a, b \in 1..Len(df_1m) :
              /\ df_1m[a].Date = trades[k].entry_time
              /\ df_1m[a].Close = trades[k].entry_price
              /\ df_1m[b].Date = trades[k].exit_time
              /\ df_1m[b].Close = trades[k].exit_price
    /\ pc = "done" => result.trades = trades

\* two trades returned for rows that came out of order
C11_Witness ==
    /\ pc = "done"
    /\ Len(result.trades) >= 2
    /\ \E k \in 1..(Len(df_1m) - 1) : df_1m[k].Date > df_1m[k + 1].Date

\* the rolling windows are not full at bar k (5 closes; 14 gain and loss
\* terms, of which position 0 holds one), or the close neither rose nor
\* fell over the 14 bars that end at k (the average gain and the average
\* loss are both 0)
IndicatorUndefined(d, k) ==
    \/ k < 4
    \/ k < 13
    \/ Rises(d, k) = 0 /\ Falls(d, k) = 0

\* C12: no position is opened at a bar where SMA5 or RSI14 is undefined,
\* the bars where RSI is undefined because the average gain and the average
\* loss over the window are both zero included: every bar that opened a
\* position has both indicators defined, and a step taken at a bar with an
\* undefined indicator opens none.
C12_NoEntryOnUndefined ==
    /\ \A k \in 1..Len(hist.opens) : ~IndicatorUndefined(df, hist.opens[k])
    /\ (pc = "scan" /\ in_trade /\ entry_idx = i - 1)
          => ~IndicatorUndefined(df, entry_idx)

\* an uptrend scan passed a bar of an unchanged window with no position
\* open, opened none there, and opened one at a later bar
C12_Witness ==
    /\ pc = "done"
    /\ daily_patterns.in_uptrend
    /\ Len(hist.opens) >= 1
    /\ \E k \in ScannedBars(Len(df)) :
          /\ Rises(df, k) = 0 /\ Falls(df, k) = 0
          /\ k < hist.opens[1]

\* the returned series holds a number at position k
RsiDefined(k) == returned_rsi[k + 1].kind # "nan"

\* C13: whenever the rolling average loss over the RSI window is 0, the
\* RSI is 100, for every window, a window of unchanged prices (average
\* gain 0 as well) included.
C13_RsiSaturates ==
    \A k \in 0..(Len(returned_rsi) - 1) :
        (rsi_loss(analyzer_df, k, window).kind = "num"
            /\ rsi_loss(analyzer_df, k, window).num = 0)
           => returned_rsi[k + 1] = Frac(100, 1)

\* C14: every defined RSI value lies in [0, 100], and RSI is undefined at
\* the positions whose window is not yet full of defined price deltas: the
\* delta of position 0 is undefined, so these are the positions below
\* window.
C14_RsiRangeAndWarmup ==
    \A k \in 0..(Len(returned_rsi) - 1) :
        /\ RsiDefined(k) =>
              /\ FracGe(returned_rsi[k + 1], 0, 1)
              /\ FracLe(returned_rsi[k + 1], 100, 1)
        /\ k < window => ~RsiDefined(k)

\* C15: the profile's recent_trend_20d is the 20-bar return in percent,
\* (close[last] / close[last - 20] - 1) * 100: the denominator is the close
\* exactly 20 bars before the last bar.
C15_TwentyBarReturn ==
    (profiler_pc = "done" /\ ~patterns.is_none) =>
        LET last == Len(df_daily) - 1
            now == df_daily[last + 1].Close
            then == df_daily[last - 20 + 1].Close
        IN  /\ patterns.recent_trend_20d.kind = "num"
            /\ patterns.recent_trend_20d.num * then
                 = 100 * (now - then) * patterns.recent_trend_20d.den

\* the profit of trade t in tenths of a percent (the profits of
\* SpecStats are whole tenths)
Tenths(t) == (t.profit_pct.num * 10) \div t.profit_pct.den
\* the positions of the winners and of the other trades of a list
WinnerIdx(ts) == {k \in 1..Len(ts) : Tenths(ts[k]) > 0}
LoserIdx(ts) == {k \in 1..Len(ts) : Tenths(ts[k]) <= 0}
\* the sum of the profits, in tenths, of the trades at the positions K
TenthsOver(ts, K) ==
    SumFrom([k \in 1..Len(ts) |-> IF k \in K THEN Tenths(ts[k]) ELSE 0],
            1, Len(ts))
\* the fraction x is n / d
IsRatio(x, n, d) == x.kind = "num" /\ x.num * d = n * x.den

\* C16: for every non-empty trade list, total_trades is the number of
\* trades, winning_trades the number of trades with profit_pct > 0,
\* losing_trades = total_trades - winning_trades, win_rate =
\* winning_trades / total_trades * 100 and total_pnl_pct the sum of
\* profit_pct; a trade with profit_pct exactly 0 counts as a loser.
C16_StatsCounts ==
    (pc = "done" /\ trades # <<>>) =>
        LET st == result.stats
            W == Cardinality(WinnerIdx(trades))
        IN  /\ ~result.is_none
            /\ st.total_trades = Len(trades)
            /\ st.winning_trades = W
            /\ st.losing_trades = st.total_trades - st.winning_trades
            /\ st.losing_trades
                 = Cardinality({k \in 1..Len(trades) :
                                   trades[k].profit_pct.num <= 0})
            /\ IsRatio(st.win_rate, W * 100, Len(trades))
            /\ IsRatio(st.total_pnl_pct,
                       TenthsOver(trades, 1..Len(trades)), 10)

\* stats returned for a list that holds a winner, a loser and a trade of
\* profit exactly 0
C16_Witness ==
    /\ pc = "done"
    /\ Len(trades) = 3
    /\ \E a, b, c \in 1..3 :
          /\ trades[a].profit_pct.num > 0
          /\ trades[b].profit_pct.num < 0
          /\ trades[c].profit_pct.num = 0
    /\ result.stats.losing_trades = 2

\* C17: avg_win is the mean profit_pct of the winners or 0 when there are
\* none, avg_loss the mean profit_pct of the trades with profit_pct <= 0 or
\* 0 when there are none, and profit_factor = |avg_win / avg_loss| when
\* avg_loss # 0 and 0 otherwise; the profits [+1.0, -0.5, +0.8] give
\* avg_win 0.9, avg_loss -0.5 and profit_factor 1.8.
C17_StatsAverages ==
    (pc = "done" /\ trades # <<>>) =>
        LET st == result.stats
            nW == Cardinality(WinnerIdx(trades))
            nL == Cardinality(LoserIdx(trades))
            sW == TenthsOver(trades, WinnerIdx(trades))
            sL == TenthsOver(trades, LoserIdx(trades))
        IN  /\ IF nW > 0 THEN IsRatio(st.avg_win, sW, 10 * nW)
               ELSE IsRatio(st.avg_win, 0, 1)
            /\ IF nL > 0 THEN IsRatio(st.avg_loss, sL, 10 * nL)
               ELSE IsRatio(st.avg_loss, 0, 1)
            /\ IF nL > 0 /\ sL # 0
               THEN IsRatio(st.profit_factor, Abs(sW * nL),
                            Abs(sL) * (IF nW > 0 THEN nW ELSE 1))
               ELSE IsRatio(st.profit_factor, 0, 1)
            /\ [k \in 1..Len(trades) |-> trades[k].profit_pct]
                 = <<Frac(1, 1), Frac(-1, 2), Frac(4, 5)>>
               => /\ st.avg_win = Frac(9, 10)
                  /\ st.avg_loss = Frac(-1, 2)
                  /\ st.profit_factor = Frac(9, 5)

\* the stats returned for the profits [+1.0, -0.5, +0.8]
C17_Witness ==
    /\ pc = "done"
    /\ [k \in 1..Len(trades) |-> trades[k].profit_pct]
         = <<Frac(1, 1), Frac(-1, 2), Frac(4, 5)>>
    /\ result.stats.profit_factor = Frac(9, 5)

\* the symbols of the backtest loop whose call returned stats of 3 trades
\* or more
Qualified ==
    {algorithm_dict[k] : k \in 1..Len(algorithm_dict)} \cap
    {sy \in 1..Len(cache) :
        LET m == cache[sy].minute
        IN  /\ m.exists /\ m.readable /\ m.rows >= 100
            /\ ~m.stats.is_none
            /\ m.stats.total_trades >= 3}

\* main ran its backtest loop and its report
Reported == main_pc = "done" /\ algorithm_dict # <<>>

\* C18: the result list holds exactly the symbols whose backtest produced
\* stats with total_trades >= 3, each once and with those stats, it is in
\* non-increasing order of total_pnl_pct, and the report shows its first
\* 15 entries.
C18_RankedResults ==
    Reported =>
        /\ {results[k].symbol : k \in 1..Len(results)} = Qualified
        /\ Len(results) = Cardinality(Qualified)
        /\ \A k \in 1..Len(results) :
              results[k].stats = cache[results[k].symbol].minute.stats
        /\ \A k \in 1..(Len(results) - 1) :
              results[k].stats.total_pnl_pct.num
                   * results[k + 1].stats.total_pnl_pct.den
                >= results[k + 1].stats.total_pnl_pct.num
                   * results[k].stats.total_pnl_pct.den
        /\ Len(report) = (IF Len(results) < 15 THEN Len(results) ELSE 15)
        /\ \A k \in 1..Len(report) : report[k] = results[k]

\* 16 symbols qualified and one was left out for its 2 trades; the ranking
\* moved symbols and the report stops at 15 rows
C18_Witness ==
    /\ Reported
    /\ Len(results) = 16
    /\ Len(report) = 15
    /\ \E sy \in 1..Len(cache) :
          /\ cache[sy].minute.stats.total_trades = 2
          /\ \A k \in 1..Len(results) : results[k].symbol # sy
    /\ \E k \in 1..(Len(results) - 1) :
          results[k].symbol > results[k + 1].symbol

\* C19: no failure while processing one symbol stops the batch: main does
\* not end in an exception, the training loop (when it runs) takes up every
\* symbol and the backtest loop every profiled symbol.
C19_BatchContinues ==
    /\ main_pc # "raised"
    /\ main_pc \in {"backtest", "done"} =>
          (~skip_training => visited.train = [k \in 1..Len(cache) |-> k])
    /\ Reported => visited.backtest = algorithm_dict

\* the rows are not in strictly increasing timestamp order (out of order,
\* or two rows of one timestamp), or a close is not positive
Malformed(rows) ==
    \/ \E k \in 1..(Len(rows) - 1) : rows[k].Date >= rows[k + 1].Date
    \/ \E k \in 1..Len(rows) : rows[k].Close <= 0

\* C20: a series with non-monotonic or duplicate timestamps or a
\* non-positive price is rejected before any indicator is computed and
\* yields no trades: the call never reaches its set-up and returns None.
C20_MalformedRejected ==
    Malformed(df_1m) =>
        /\ pc # "scan"
        /\ df = <<>>
        /\ trades = <<>>
        /\ pc = "done" => result.is_none /\ result.trades = <<>>

\* the call ended at a bar of the scan, before the loop was over
EndedInScan == pc = "done" /\ df # <<>> /\ i \in ScannedBars(Len(df))

\* C21: a scan is all-or-nothing: a call that an exception ends at a bar,
\* trades appended or not, returns no trades and no stats, and a call that
\* returns trades returns all the trades of a scan that ran to its end.
C21_AllOrNothing ==
    /\ EndedInScan =>
          /\ result.is_none
          /\ result.trades = <<>>
          /\ result.stats = NoStats
    /\ (pc = "done" /\ ~result.is_none) =>
          /\ i = Len(df) - 5
          /\ result.trades = trades

\* an exception ended the call after a trade was appended
C21_Witness ==
    /\ EndedInScan
    /\ Len(trades) >= 1
    /\ result.is_none

\* C22: the ranked result list does not depend on the order in which the
\* symbols are processed: two runs over the same files that take the
\* symbols up in different orders end with the same ranked list of
\* tickers, also when two symbols have equal total_pnl_pct.
C22_OrderIndependent ==
    (runs = 2 /\ main_pc = "done") => Ranking = first_ranking

\* the files and the index keys that belong to ticker t
FilesOf(t, dir) == dir \cap {t \o <<"_", q, x>> : q \in Freqs, x \in {".parquet", ".csv"}}
KeysOf(t, idx) == {e \in idx : \E q \in Freqs : e.key = t \o <<"_", q>>}

\* C23: clear_cache(symbol) removes only that symbol's files and index
\* entries: for every other symbol, one whose ticker starts with the same
\* characters included, the files and the index entries are as before the
\* call.
C23_ClearOnlyThatSymbol ==
    (last_call.op = "clear_cache" /\ last_call.symbol # <<>>) =>
        \A t \in Tickers \ {last_call.symbol} :
            /\ FilesOf(t, cache_dir) = FilesOf(t, last_call.dir_before)
            /\ KeysOf(t, index) = KeysOf(t, last_call.index_before)

\* C30: after any sequence of save_cached_symbol, save_parquet_symbol and
\* clear_cache calls on one cache directory, every key of the index names
\* a parquet file that exists in the directory.
C30_IndexNamesFiles ==
    \A e \in index : e.parquet \in cache_dir

\* C27: in fetch_for_symbol the 1-minute series is fetched only after the
\* daily series was fetched with rows and saved in the same call.
C27_MinuteOnlyAfterDailySaved ==
    (last_call.op = "fetch_for_symbol" /\ last_call.minute_fetched) =>
        /\ last_call.daily = "rows"
        /\ last_call.daily_saved

\* the sum of the last w closes of the daily frame
SumOfLastCloses(w) ==
    SumFrom([j \in (Len(df_daily) - w)..(Len(df_daily) - 1) |->
                 Close(df_daily, j)],
            Len(df_daily) - w, Len(df_daily) - 1)

\* C24: the profile's in_uptrend is SMA50[last] > SMA200[last], and an
\* undefined SMA is never a number: for a daily series of 100 to 199 bars
\* in_uptrend is false, and from 200 bars on it is true exactly when the
\* mean of the last 50 closes exceeds the mean of the last 200.
C24_UptrendNeedsBothAverages ==
    (profiler_pc = "done" /\ ~patterns.is_none) =>
        /\ Len(df_daily) >= MinDailyBars
        /\ Len(df_daily) < LongTrendWindow => patterns.in_uptrend = FALSE
        /\ Len(df_daily) >= LongTrendWindow =>
              patterns.in_uptrend =
                  (SumOfLastCloses(TrendWindow) * LongTrendWindow
                     > SumOfLastCloses(LongTrendWindow) * TrendWindow)

\* a profiled series of 199 bars whose closes rose near the end, so that
\* the last 50 closes average more than all 199: in_uptrend is false
C24_Witness ==
    /\ profiler_pc = "done"
    /\ ~patterns.is_none
    /\ Len(df_daily) = LongTrendWindow - 1
    /\ SumOfLastCloses(TrendWindow) * Len(df_daily)
         > SumOfLastCloses(Len(df_daily)) * TrendWindow
    /\ patterns.in_uptrend = FALSE

\* C25: for a series of n >= 100 bars the scan visits exactly the indices
\* 20, 21, ..., n-6 in increasing order, once each: the scan starts at 20,
\* every step of it decides a bar of 20..n-6 and moves to the next bar, it
\* ends when the next bar is n-5, and no trade has an entry bar below 20
\* or an exit bar above n-6.
C25_ScanOrder ==
    /\ [](pc = "scan" => /\ Len(df) >= MinBars
                         /\ i \in ScanStart..(Len(df) - ScanTail))
    /\ [][pc = "call" /\ pc' = "scan" => i' = ScanStart]_vars
    /\ [][pc = "scan" /\ pc' = "scan" =>
              i \in ScannedBars(Len(df)) /\ i' = i + 1]_vars
    /\ [][pc = "scan" /\ pc' = "done" => i = Len(df) - ScanTail /\ i' = i]_vars
    /\ [](\A k \in 1..Len(trades) :
              /\ BarOfTime(df, trades[k].entry_time) >= ScanStart
              /\ BarOfTime(df, trades[k].exit_time) <= Len(df) - ScanTail - 1)

\* a scan that ran to its end with a trade closed at the last scanned bar
C25_Witness ==
    /\ ScanReturned
    /\ trades # <<>>
    /\ BarOfTime(df, trades[Len(trades)].exit_time) = Len(df) - ScanTail - 1

\* src/config.py, line 13; day_trading_backtest.py does not import config
MAX_HOLD_TIME_MINUTES == 480

\* C26: the time-based exit fires after the maximum hold time configured
\* in config.py: a Time Exit trade was held for more than
\* MAX_HOLD_TIME_MINUTES bars.
C26_ConfiguredMaxHold ==
    \A k \in 1..Len(trades) :
        trades[k].exit_reason = "Time Exit" =>
            trades[k].hold_minutes > MAX_HOLD_TIME_MINUTES

\* the profit of a trade, from its own prices, is beyond 2 %
MovedBeyondLargeMove(t) ==
    Abs(t.exit_price - t.entry_price) * 100 > 2 * t.entry_price

\* C28: the exit reason Large Move is never emitted: a trade whose profit
\* is beyond 2 % in either direction left through the Profit Target or the
\* Stop Loss branch, so every trade of the third branch is a Time Exit
\* held for more than 60 bars with -0.5 < profit_pct < 0.8.
C28_LargeMoveNeverEmitted ==
    \A k \in 1..Len(trades) :
        LET t == trades[k]
            gain == t.exit_price - t.entry_price
        IN  /\ t.exit_reason \in {"Profit Target", "Stop Loss", "Time Exit"}
            /\ MovedBeyondLargeMove(t) =>
                  t.exit_reason \in {"Profit Target", "Stop Loss"}
            /\ t.exit_reason = "Time Exit" =>
                  /\ t.hold_minutes > 60
                  /\ gain * 1000 < 8 * t.entry_price
                  /\ gain * 1000 > -5 * t.entry_price

\* a trade closed more than 2 % away from its entry price within 60 bars
C28_Witness ==
    \E k \in 1..Len(trades) :
        /\ MovedBeyondLargeMove(trades[k])
        /\ trades[k].hold_minutes <= 60

\* C29: every emitted trade has 1 <= hold_minutes <= 61, and a Time Exit
\* trade has hold_minutes exactly 61; a position still open is at most 60
\* bars past its entry bar when the next bar is decided.
C29_HoldAtMostSixtyOne ==
    /\ \A k \in 1..Len(trades) :
          /\ trades[k].hold_minutes >= 1
          /\ trades[k].hold_minutes <= 61
          /\ trades[k].hold_minutes = hist.closes[k] - hist.opens[k]
          /\ trades[k].exit_reason = "Time Exit" =>
                trades[k].hold_minutes = 61
    /\ (AtScannedBar /\ in_trade) =>
          /\ i - entry_idx >= 1
          /\ i - entry_idx <= 61

\* a Time Exit trade, held for 61 bars
C29_Witness ==
    \E k \in 1..Len(trades) :
        /\ trades[k].exit_reason = "Time Exit"
        /\ trades[k].hold_minutes = 61

===========================================================================
